---- MODULE Spec2Model ----
(***************************************************************************)
(* A model of the 64x0 assembler driver (src/Drivers/64asm.cc): the        *)
(* argument loop, the per-file compile loop, the directive processor, the  *)
(* line validator, the instruction encoder and the AE object writer.       *)
(* Text is modelled as sequences of one-character strings, bytes as        *)
(* integers 0..255, positions are 0-based as in the C++ source.            *)
(***************************************************************************)
EXTENDS Integers, Sequences, FiniteSets, TLC

(* ------------------------------------------------------------------ *)
(* Bounds of the model                                                 *)
(* ------------------------------------------------------------------ *)
MaxArgs == 2
MaxLines == 3
MaxObjLines == 4
MaxLimitLines == 13
MaxProcLines == 2
MaxCalls == 2
MaxEncLines == 2
MaxDigits == 2
MaxSymLines == 3

(* ------------------------------------------------------------------ *)
(* Program constants                                                   *)
(* ------------------------------------------------------------------ *)
kErrorLimit == 10
kAESymbolLen == 64
kAEPad == 8
kAEMagLen == 2
kAEInvalidOpcode == 0
kKindRelocationAtRuntime == 847
kPefBaseOrigin == 16777216
kPefCode == 12
kPefData == 13
kPefZero == 14
kPefArch64000 == 2
kAsmNoArgs == 0
kAsmImmediate == 1
kAsmRegToReg == 2
kAsmSyscall == 3
kAsmJump == 4
kAsmRegisterLimit == 20
NumberCastBytes == 8
SizeTypeBytes == 8
CharTypeBytes == 1

NPOS == -1

(* ------------------------------------------------------------------ *)
(* Characters and std::string helpers                                  *)
(* ------------------------------------------------------------------ *)
AsciiTable ==
  << " ", "!", "\"", "#", "$", "%", "&", "'", "(", ")", "*", "+", ",", "-", ".", "/",
     "0", "1", "2", "3", "4", "5", "6", "7", "8", "9", ":", ";", "<", "=", ">", "?",
     "@", "A", "B", "C", "D", "E", "F", "G", "H", "I", "J", "K", "L", "M", "N", "O",
     "P", "Q", "R", "S", "T", "U", "V", "W", "X", "Y", "Z", "[", "\\", "]", "^", "_",
     "BACKTICK", "a", "b", "c", "d", "e", "f", "g", "h", "i", "j", "k", "l", "m", "n", "o",
     "p", "q", "r", "s", "t", "u", "v", "w", "x", "y", "z", "{", "|", "}", "~" >>

\* the terminator of a C string, and what a std::string holds at size()
NUL == "NUL"

\* the byte value of a character (its ASCII code)
Ord(c) == IF c = NUL THEN 0
          ELSE 31 + (CHOOSE k \in 1..Len(AsciiTable) : AsciiTable[k] = c)

Digits == {"0", "1", "2", "3", "4", "5", "6", "7", "8", "9"}
Lower == {"a", "b", "c", "d", "e", "f", "g", "h", "i", "j", "k", "l", "m",
          "n", "o", "p", "q", "r", "s", "t", "u", "v", "w", "x", "y", "z"}
Upper == {"A", "B", "C", "D", "E", "F", "G", "H", "I", "J", "K", "L", "M",
          "N", "O", "P", "Q", "R", "S", "T", "U", "V", "W", "X", "Y", "Z"}

isdigit(c) == c \in Digits
isalpha(c) == c \in Lower \cup Upper
isspace(c) == c \in {" ", "\t", "\n", "\r"}

\* s[k] of a std::string: the terminator at k = size()
At(s, k) == IF k >= 0 /\ k < Len(s) THEN s[k + 1] ELSE NUL

\* s.substr(k)
Substr(s, k) == SubSeq(s, k + 1, Len(s))

\* s.erase(k, n)
Erase(s, k, n) == SubSeq(s, 1, k) \o SubSeq(s, k + n + 1, Len(s))

\* s.find(t): the first position of t in s, or npos
Find(s, t) ==
  LET hits == {k \in 0..(Len(s) - Len(t)) : SubSeq(s, k + 1, k + Len(t)) = t}
  IN IF hits = {} THEN NPOS ELSE CHOOSE k \in hits : \A j \in hits : k <= j

\* ParserKit::find_word: the needle occurs in the haystack
find_word(haystack, needle) == Find(haystack, needle) # NPOS

\* while (s.find(" ") != npos) s.erase(s.find(" "), 1)
EraseSpaces(s) == SelectSeq(s, LAMBDA c : c # " ")

DigitChar(d) == AsciiTable[17 + d]

RECURSIVE to_string(_)
\* std::to_string of a non-negative integer
to_string(n) == IF n < 10 THEN <<DigitChar(n)>>
                ELSE to_string(n \div 10) \o <<DigitChar(n % 10)>>

Str_stw == <<"s", "t", "w">>
Str_ldw == <<"l", "d", "w">>
Str_lda == <<"l", "d", "a">>
Str_sta == <<"s", "t", "a">>
Str_add == <<"a", "d", "d">>
Str_dec == <<"d", "e", "c">>
Str_pop == <<"p", "o", "p">>
Str_import == <<"i", "m", "p", "o", "r", "t">>
Str_export == <<"e", "x", "p", "o", "r", "t">>
Str_import_sp == Str_import \o <<" ">>
Str_export_sp == Str_export \o <<" ">>
Str_text == <<".", "t", "e", "x", "t">>
Str_data == <<".", "d", "a", "t", "a">>
Str_page_zero == <<".", "p", "a", "g", "e", "_", "z", "e", "r", "o">>
Str_start == <<"_", "_", "s", "t", "a", "r", "t">>
kUndefinedSymbol == <<":", "l", "d", ":">>
kRelocSymbol == <<":", "m", "l", "d", ":">>
kAsmRegisterPrefix == "r"

(* ------------------------------------------------------------------ *)
(* Opcode table                                                        *)
(* ------------------------------------------------------------------ *)
Op(n, o, f3, f7) == [fName |-> n, fOpcode |-> o, fFunct3 |-> f3, fFunct7 |-> f7]

kOpcodes64x0 ==
  << Op(<<"n", "o", "p">>, 0, 0, kAsmNoArgs),
     Op(<<"j", "l", "r">>, 115, 7, kAsmJump),
     Op(<<"m", "v">>, 35, 5, kAsmRegToReg),
     Op(Str_stw, 15, 4, kAsmImmediate),
     Op(Str_ldw, 15, 4, kAsmImmediate),
     Op(Str_lda, 15, 5, kAsmImmediate),
     Op(Str_sta, 15, 1, kAsmImmediate),
     Op(Str_add, 43, 4, kAsmImmediate),
     Op(Str_dec, 43, 5, kAsmImmediate),
     Op(<<"i", "n", "t">>, 115, 0, kAsmSyscall) >>

\* the first of the table entries hits that a loop over the table meets, or 0
FirstOpcode(hits) ==
  IF hits = {} THEN 0 ELSE CHOOSE k \in hits : \A j \in hits : k <= j

(* ------------------------------------------------------------------ *)
(* detail::algorithm                                                   *)
(* ------------------------------------------------------------------ *)
is_not_alnum_space(c) ==
  ~(isalpha(c) \/ isdigit(c) \/ c = " " \/ c = "\t" \/ c = "," \/ c = "(" \/ c = ")"
    \/ c = "\"" \/ c = "'" \/ c = "[" \/ c = "]" \/ c = "+" \/ c = "_" \/ c = ":"
    \/ c = "@" \/ c = ".")

\* a character test that lets every line through
is_valid_Any(str) == TRUE

is_valid(str) == \A k \in 1..Len(str) : ~is_not_alnum_space(str[k])

(* ------------------------------------------------------------------ *)
(* PlatformAssembler64x0::CheckLine                                    *)
(* returns the (possibly rewritten) line and the error text as tags    *)
(* ------------------------------------------------------------------ *)
CheckOpcode(line, o) ==
  IF o.fFunct7 = kAsmNoArgs THEN <<>>
  ELSE (IF line \in {Str_stw, Str_ldw, Str_lda, Str_sta} THEN <<"malformed">> ELSE <<>>)
       \o (IF o.fName \notin {<<"j", "l", "r">>, <<"j", "r", "l">>, <<"i", "n", "t">>}
              /\ find_word(line, o.fName)
              /\ ~isspace(At(line, Find(line, o.fName) + Len(o.fName)))
           THEN <<"missing_space">> ELSE <<>>)

CheckMatched(line, k) ==
  IF k = 0 THEN <<"unrecognized">> ELSE CheckOpcode(line, kOpcodes64x0[k])

CheckInstruction(line) ==
  CheckMatched(line, FirstOpcode({k \in 1..Len(kOpcodes64x0) :
                                    Find(line, kOpcodes64x0[k].fName) # NPOS}))

CheckLine(line) ==
  IF line = <<>> \/ find_word(line, Str_import) \/ find_word(line, Str_export)
     \/ find_word(line, <<"#">>) \/ find_word(line, <<";">>)
  THEN IF Find(line, <<"#">>) # NPOS
       THEN [line |-> SubSeq(line, 1, Find(line, <<"#">>)), err |-> <<>>]
       ELSE IF Find(line, <<";">>) # NPOS
       THEN [line |-> SubSeq(line, 1, Find(line, <<";">>)), err |-> <<>>]
       ELSE [line |-> line,
             err |-> IF ~is_valid(line) THEN <<"non_alnum">> ELSE <<>>]
  ELSE IF ~is_valid(line) THEN [line |-> line, err |-> <<"non_alnum">>]
  ELSE IF Find(line, <<",">>) # NPOS /\ Find(line, <<",">>) + 1 = Len(line)
  THEN [line |-> line, err |-> <<"lacks_right">>]
  ELSE IF Find(line, <<",">>) # NPOS
          /\ \A k \in 1..Len(Substr(line, Find(line, <<",">>) + 1)) :
                Substr(line, Find(line, <<",">>) + 1)[k] \in {" ", "\t"}
  THEN [line |-> line, err |-> <<"not_complete">>]
  ELSE [line |-> line, err |-> CheckInstruction(line)]

(* ------------------------------------------------------------------ *)
(* The process-wide tables, passed to the operations as one record g:  *)
(*   kBytes, kOrigin, kOriginLabel, kCurrentRecord, kRecords,          *)
(*   kUndefinedSymbols, kCounter, kAcceptableErrors, kOutputAsBinary   *)
(* and status: "ok", "throw" (std::runtime_error), "exit" (std::exit)  *)
(* ------------------------------------------------------------------ *)

\* static CompilerKit::AERecordHeader kCurrentRecord
InitCurrentRecord ==
  [fName |-> <<>>, fKind |-> kPefCode, fSize |-> 0, fFlags |-> 0, fOffset |-> 0,
   fPad |-> 0, fSpill |-> <<>>]

\* memset(rec.fName, 0, kAESymbolLen); memcpy(rec.fName, str.c_str(), str.size()):
\* fName holds the first kAESymbolLen characters (the rest of the field is null);
\* fSpill holds the characters that were copied past the end of fName
MemcpyName(rec, str) ==
  IF Len(str) <= kAESymbolLen THEN [rec EXCEPT !.fName = str]
  ELSE [rec EXCEPT !.fName = SubSeq(str, 1, kAESymbolLen),
                   !.fSpill = SubSeq(str, kAESymbolLen + 1, Len(str))]

\* an error report that is not counted
print_error_Uncounted(g) == g

\* detail::print_error: the limit is tested before the counter is advanced
print_error(g) ==
  IF g.kAcceptableErrors > kErrorLimit THEN [g EXCEPT !.status = "exit"]
  ELSE [g EXCEPT !.kAcceptableErrors = @ + 1]

\* print_error(...); throw std::runtime_error(...)
Fatal(g) ==
  LET e == print_error(g)
  IN IF e.status = "exit" THEN e ELSE [e EXCEPT !.status = "throw"]

\* an open record whose size is never finalized
FinalizeLast_Unset(recs, bytes) == recs

\* kRecords[kRecords.size() - 1].fSize = kBytes.size(), when a record exists
FinalizeLast(recs, bytes) ==
  IF recs = <<>> THEN recs ELSE [recs EXCEPT ![Len(recs)].fSize = Len(bytes)]

\* the section kind a directive name selects, or the kind kept from before
SectionKind(name, old) ==
  IF name = Str_start THEN kPefCode
  ELSE IF Find(name, Str_text) # NPOS THEN kPefCode
  ELSE IF Find(name, Str_data) # NPOS THEN kPefData
  ELSE IF Find(name, Str_page_zero) # NPOS THEN kPefZero
  ELSE old

Mangle(name, chars) == [k \in 1..Len(name) |-> IF name[k] \in chars THEN "$" ELSE name[k]]

\* the record pushed by a directive: kind selected by name, fName set to stored
DirectiveRecord(cur, name, stored) ==
  [MemcpyName([cur EXCEPT !.fKind = SectionKind(name, cur.fKind)], stored)
   EXCEPT !.fPad = kAEInvalidOpcode]

\* kRecords.emplace_back(kCurrentRecord), the open record's size finalized before
PushRecord(g, cur) ==
  [g EXCEPT !.kCurrentRecord = cur,
            !.kCounter = @ + 1,
            !.kRecords = Append(FinalizeLast(g.kRecords, g.kBytes), cur)]

\* the import branch, name being the text after "import "
ImportName(name, g) ==
  PushRecord(g, DirectiveRecord(g.kCurrentRecord, Mangle(name, {" ", ","}),
                                to_string(Len(name)) \o kUndefinedSymbol
                                \o Mangle(name, {" ", ","})))

ReadImport(line, g) ==
  IF g.kOutputAsBinary THEN Fatal(g)
  ELSE ImportName(Substr(line, Find(line, Str_import_sp) + Len(Str_import_sp)), g)

\* the section suffix erased from the origin label's name
StripSection(name, name_copy) ==
  IF Find(name, Str_text) # NPOS
  THEN Erase(name_copy, Find(name_copy, Str_text), Len(Str_text))
  ELSE IF Find(name, Str_data) # NPOS
  THEN Erase(name_copy, Find(name_copy, Str_data), Len(Str_data))
  ELSE IF Find(name, Str_page_zero) # NPOS
  THEN Erase(name_copy, Find(name_copy, Str_page_zero), Len(Str_page_zero))
  ELSE name_copy

\* kOriginLabel.push_back(std::make_pair(name_copy, kOrigin)); ++kOrigin
PushOriginLabel(g, name_copy) ==
  [g EXCEPT !.kOriginLabel = Append(@, <<name_copy, g.kOrigin>>), !.kOrigin = @ + 1]

\* the export branch, name_copy being the text after "export "
ExportName(name_copy, g) ==
  PushRecord(PushOriginLabel(g, EraseSpaces(StripSection(Mangle(name_copy, {" "}),
                                                          name_copy))),
             DirectiveRecord(g.kCurrentRecord, Mangle(name_copy, {" "}),
                             Mangle(name_copy, {" "})))

\* an export branch without the flat-binary test
ReadExport_Allowed(line, g) ==
  ExportName(Substr(line, Find(line, Str_export_sp) + Len(Str_export_sp)), g)

ReadExport(line, g) ==
  IF g.kOutputAsBinary THEN Fatal(g)
  ELSE ExportName(Substr(line, Find(line, Str_export_sp) + Len(Str_export_sp)), g)

\* asm_read_attributes
asm_read_attributes(line, g) ==
  IF find_word(line, Str_import_sp) THEN ReadImport(line, g)
  ELSE IF find_word(line, Str_export_sp) THEN ReadExport(line, g)
  ELSE g

(* ------------------------------------------------------------------ *)
(* Numeric Literal Reader                                              *)
(* ------------------------------------------------------------------ *)
DigitVal(c) ==
  IF c \in Digits THEN Ord(c) - 48
  ELSE IF c \in Lower THEN Ord(c) - 87
  ELSE IF c \in Upper THEN Ord(c) - 55
  ELSE 99

RECURSIVE StrtoqDigits(_, _, _, _)
StrtoqDigits(s, k, base, acc) ==
  IF k > Len(s) \/ DigitVal(s[k]) >= base THEN acc
  ELSE StrtoqDigits(s, k + 1, base, acc * base + DigitVal(s[k]))

\* strtoq(s, nullptr, base): optional sign, optional 0x for base 16, then the
\* longest run of digits of the base; 0 when there is none
strtoq(s, base) ==
  LET k0 == IF At(s, 0) = "+" THEN 1 ELSE 0
      k1 == IF base = 16 /\ At(s, k0) = "0" /\ At(s, k0 + 1) \in {"x", "X"}
               /\ DigitVal(At(s, k0 + 2)) < 16
            THEN k0 + 2 ELSE k0
  IN StrtoqDigits(s, k1 + 1, base, 0)

RECURSIVE NumberCast(_, _)
\* CompilerKit::NumberCast: the n low bytes of raw, least significant first
NumberCast(raw, n) == IF n = 0 THEN <<>> ELSE <<raw % 256>> \o NumberCast(raw \div 256, n - 1)

PushBytes(g, bs) == [g EXCEPT !.kBytes = @ \o bs]

\* the parsed value res put to kBytes; a zero result with errno set is an invalid
\* literal: fatal after a base prefix, "not a number" for a decimal
WriteParsed(res, prefixed, g) ==
  IF res = 0 /\ g.errno # 0
  THEN [g |-> IF prefixed THEN Fatal(g) ELSE g, ok |-> FALSE]
  ELSE [g |-> PushBytes(g, NumberCast(res, NumberCastBytes)), ok |-> TRUE]

\* PlatformAssembler64x0::WriteNumber
WriteNumber(pos, jump_label, g) ==
  IF ~isdigit(At(jump_label, pos)) THEN [g |-> g, ok |-> FALSE]
  ELSE IF At(jump_label, pos + 1) = "x"
  THEN WriteParsed(strtoq(Substr(jump_label, pos + 2), 16), TRUE, g)
  ELSE IF At(jump_label, pos + 1) = "b"
  THEN WriteParsed(strtoq(Substr(jump_label, pos + 2), 2), TRUE, g)
  ELSE IF At(jump_label, pos + 1) = "o"
  THEN WriteParsed(strtoq(Substr(jump_label, pos + 2), 7), TRUE, g)
  ELSE WriteParsed(strtoq(Substr(jump_label, pos), 10), FALSE, g)

(* ------------------------------------------------------------------ *)
(* PlatformAssembler64x0::WriteLine                                    *)
(* ------------------------------------------------------------------ *)

\* a register index read from its first digit only
RegStr_OneDigit(line, line_index) == <<At(line, line_index + 1)>>

\* reg_str: one digit, or two when a digit follows
RegStr(line, line_index) ==
  IF isdigit(At(line, line_index + 2))
  THEN <<At(line, line_index + 1), At(line, line_index + 2)>>
  ELSE <<At(line, line_index + 1)>>

RECURSIVE ScanRegisters(_, _, _)
\* the register loop: r = [g, found]; reading line[k] at k > size() cannot
\* change the outcome, the test on line[line_index + 3] being guarded by a
\* digit at line_index + 2
ScanRegisters(line, line_index, r) ==
  IF line_index >= Len(line) \/ r.g.status # "ok" THEN r
  ELSE IF At(line, line_index) = kAsmRegisterPrefix /\ isdigit(At(line, line_index + 1))
  THEN IF isdigit(At(line, line_index + 3)) /\ isdigit(At(line, line_index + 2))
       THEN [r EXCEPT !.g = Fatal(r.g)]
       ELSE IF strtoq(RegStr(line, line_index), 10) > kAsmRegisterLimit
       THEN [r EXCEPT !.g = Fatal(r.g)]
       ELSE ScanRegisters(line, line_index + 1,
                          [g |-> PushBytes(r.g, <<strtoq(RegStr(line, line_index), 10)>>),
                           found |-> r.found + 1])
  ELSE ScanRegisters(line, line_index + 1, r)

\* no check on the number of registers found
CheckRegisterCount_None(name, funct7, found_some, g) == g

\* the checks on the number of registers found
CheckRegisterCount(name, funct7, found_some, g) ==
  IF funct7 # kAsmImmediate /\ found_some = 1 THEN Fatal(g)
  ELSE IF found_some < 1 /\ name # Str_ldw /\ name # Str_lda /\ name # Str_stw THEN Fatal(g)
  ELSE IF found_some = 1 /\ name = Str_add THEN Fatal(g)
  ELSE IF found_some = 1 /\ name = Str_dec THEN Fatal(g)
  ELSE IF found_some > 0 /\ name = Str_pop THEN Fatal(g)
  ELSE g

AfterScan(name, funct7, r) ==
  IF r.g.status # "ok" THEN r.g ELSE CheckRegisterCount(name, funct7, r.found, r.g)

\* case kAsmRegToReg, kAsmImmediate of the switch on fFunct7
EncodeRegisters(line, name, funct7, g) ==
  IF funct7 \in {kAsmRegToReg, kAsmImmediate}
  THEN AfterScan(name, funct7, ScanRegisters(line, 0, [g |-> g, found |-> 0]))
  ELSE g

\* what follows the comma, without its spaces
AfterComma(jump_label) == EraseSpaces(Substr(jump_label, Find(jump_label, <<",">>) + 1))

\* neither a register reference nor followed by a digit
IsSymbol(jl) == At(jl, 0) # kAsmRegisterPrefix /\ ~isdigit(At(jl, 1))

RECURSIVE OperandLoop(_, _, _)
\* while (jump_label.find(",") != npos)
OperandLoop(jump_label, found_sym, g) ==
  IF Find(jump_label, <<",">>) = NPOS THEN [g |-> g, jump_label |-> jump_label]
  ELSE IF IsSymbol(AfterComma(jump_label)) /\ found_sym
  THEN [g |-> Fatal(g), jump_label |-> AfterComma(jump_label)]
  ELSE OperandLoop(AfterComma(jump_label),
                   found_sym \/ IsSymbol(AfterComma(jump_label)), g)

RECURSIVE StripLeading(_)
StripLeading(s) ==
  IF Find(s, <<" ">>) = NPOS \/ isalpha(At(s, 0)) \/ isdigit(At(s, 0)) THEN s
  ELSE StripLeading(Erase(s, Find(s, <<" ">>), 1))

\* jump_label after "replace any spaces"
TrimLabel(s) == IF At(s, 0) = " " THEN StripLeading(s) ELSE s

RECURSIVE RelocBytes(_, _, _)
\* the characters of the relocation entry copied to kBytes: a backslash and the
\* character after it are not copied
RelocBytes(str, k, ignore_back_slash) ==
  IF k > Len(str) THEN <<>>
  ELSE IF str[k] = "\\" THEN RelocBytes(str, k + 1, TRUE)
  ELSE IF ignore_back_slash THEN RelocBytes(str, k + 1, FALSE)
  ELSE <<Ord(str[k])>> \o RelocBytes(str, k + 1, FALSE)

\* asm_end_label_cpy
EndLabel(g) == [g EXCEPT !.kOrigin = @ + 1]

\* the last origin label named cpy, or 0
FindLabel_Last(labels, cpy) ==
  LET hits == {k \in 1..Len(labels) : labels[k][1] = cpy}
  IN IF hits = {} THEN 0 ELSE CHOOSE k \in hits : \A j \in hits : k >= j

\* the first origin label named cpy, or 0
FindLabel(labels, cpy) ==
  LET hits == {k \in 1..Len(labels) : labels[k][1] = cpy}
  IN IF hits = {} THEN 0 ELSE CHOOSE k \in hits : \A j \in hits : k <= j

\* from "if (cpy_jump_label.size() < 1)" to the goto after the marker
WriteReloc(cpy, g) ==
  IF Len(cpy) < 1 THEN Fatal(g)
  ELSE EndLabel(PushBytes(g, RelocBytes(to_string(Len(cpy)) \o kRelocSymbol \o cpy, 1, FALSE)
                             \o <<0>>))

\* the retry of the Numeric Literal Reader on an operand that starts with '0':
\* w is what WriteNumber returned
RetryNumber(w) ==
  IF w.g.status = "ok" /\ w.ok THEN EndLabel(w.g) ELSE w.g

\* the label resolution of lda and sta; k is the matching origin label
ResolveLabel(name, cpy, k, g) ==
  IF name \in {Str_lda, Str_sta} /\ k # 0
  THEN EndLabel(PushBytes(g, NumberCast(g.kOriginLabel[k][2], NumberCastBytes)))
  ELSE IF name \in {Str_lda, Str_sta} /\ At(cpy, 0) = "0"
  THEN RetryNumber(WriteNumber(0, cpy, g))
  ELSE WriteReloc(cpy, g)

StripNewline(cpy) ==
  IF Find(cpy, <<"\n">>) # NPOS THEN Erase(cpy, Find(cpy, <<"\n">>), 1) ELSE cpy

\* asm_write_label, on the label without its newline
WriteLabelAt(name, cpy, g) ==
  IF Find(cpy, Str_import) # NPOS
  THEN IF name = Str_sta THEN Fatal(g) ELSE EndLabel(g)
  ELSE ResolveLabel(name, cpy, FindLabel(g.kOriginLabel, cpy), g)

WriteLabel(name, cpy_jump_label, g) == WriteLabelAt(name, StripNewline(cpy_jump_label), g)

\* after WriteNumber(0, jump_label) returned w
AfterWriteNumber(name, cpy_jump_label, w) ==
  IF w.g.status # "ok" THEN w.g
  ELSE IF ~w.ok /\ name = Str_sta THEN Fatal(w.g)
  ELSE IF w.ok /\ name = Str_sta /\ Find(cpy_jump_label, Str_import_sp) # NPOS
  THEN Fatal(w.g)
  ELSE WriteLabel(name, cpy_jump_label, w.g)

\* after the operand loop returned o
AfterOperandLoop(name, o) ==
  IF o.g.status # "ok" THEN o.g
  ELSE AfterWriteNumber(name, o.jump_label, WriteNumber(0, TrimLabel(o.jump_label), o.g))

\* the operand of stw, ldw, lda, sta
EncodeOperand(line, name, g) == AfterOperandLoop(name, OperandLoop(line, FALSE, g))

\* after the switch on fFunct7 left the tables as g
AfterRegisters(line, name, g) ==
  IF g.status # "ok" THEN g
  ELSE IF name \in {Str_stw, Str_ldw, Str_lda, Str_sta} THEN EncodeOperand(line, name, g)
  ELSE EndLabel(g)

\* the body of the opcode loop for the matching entry o
EncodeOpcode(line, o, g) ==
  AfterRegisters(line, o.fName,
                 EncodeRegisters(line, o.fName, o.fFunct7,
                                 PushBytes(g, <<o.fOpcode, o.fFunct3, o.fFunct7>>)))

\* the opcode loop: k is the first matching entry, or 0
EncodeMatched(line, k, g) == IF k = 0 THEN g ELSE EncodeOpcode(line, kOpcodes64x0[k], g)

\* PlatformAssembler64x0::WriteLine
WriteLine(line, g) ==
  IF find_word(line, Str_export_sp) THEN g
  ELSE EncodeMatched(line,
                     FirstOpcode({k \in 1..Len(kOpcodes64x0) :
                                    find_word(line, kOpcodes64x0[k].fName) /\ is_valid(line)}),
                     g)

(* ------------------------------------------------------------------ *)
(* Source lines and command lines                                      *)
(* ------------------------------------------------------------------ *)
L_export_text_foo == Str_export_sp \o Str_text \o <<" ", "f", "o", "o">>
L_export_data_bar == Str_export_sp \o Str_data \o <<" ", "b", "a", "r">>
L_import_baz == Str_import_sp \o <<"b", "a", "z">>
L_nop == <<"n", "o", "p">>
L_add_r1_r2 == Str_add \o <<" ", "r", "1", ",", " ", "r", "2">>
L_add_r1 == Str_add \o <<" ", "r", "1">>
L_add_bang == Str_add \o <<" ", "r", "1", ",", " ", "r", "2", " ", "!">>
L_lda_r1_foo == Str_lda \o <<" ", "r", "1", ",", " ", "f", "o", "o">>

Lines == {L_export_text_foo, L_export_data_bar, L_import_baz, L_nop, L_add_r1_r2,
          L_add_r1, L_add_bang, L_lda_r1_foo}
LimitLines == {L_export_text_foo, L_add_bang, L_add_r1}
ProcLines == {L_export_text_foo, L_nop, L_lda_r1_foo, L_add_bang}
\* instruction lines: register tokens of every width around the register limit
Str_mv == <<"m", "v">>
RegDigits == {<<"0">>, <<"5">>, <<"2", "0">>, <<"2", "1">>, <<"9", "9">>, <<"0", "5">>,
              <<"1", "2", "3">>, <<"0", "2", "0">>}
RegLine(name, d) == name \o <<" ", "r">> \o d \o <<",", " ", "r", "2">>
RegLines == {RegLine(name, d) : name \in {Str_add, Str_mv}, d \in RegDigits}

\* operands of the memory mnemonics: a symbol, numeric literals, nothing
T_foo == <<"f", "o", "o">>
Operands == {T_foo, <<"4", "2">>, <<"0", "x", "2", "A">>, <<"0">>}
OperandLine(name, op) == name \o <<" ", "r", "1", ",", " ">> \o op
OperandLines == {OperandLine(name, op) : name \in {Str_stw, Str_ldw, Str_lda, Str_sta},
                                         op \in Operands}
BareLines == {name \o <<" ">> \o T_foo : name \in {Str_stw, Str_ldw, Str_lda, Str_mv}}

L_mv_r1 == Str_mv \o <<" ", "r", "1">>
L_export_text_start == Str_export_sp \o Str_text \o <<" ">> \o Str_start
L_export_long == Str_export_sp \o [k \in 1..(kAESymbolLen + 1) |-> "a"]
L_add_r1_lda == Str_add \o <<" ", "r", "1", ",", " ">> \o Str_lda
L_lda_r1_add == Str_lda \o <<" ", "r", "1", ",", " ">> \o Str_add
L_add_r1_comma == Str_add \o <<" ", "r", "1", ",">>
L_add_r1_comma_sp == Str_add \o <<" ", "r", "1", ",", " ">>
L_addr1_r2 == Str_add \o <<"r", "1", ",", " ", "r", "2">>
L_foo_r1_r2 == T_foo \o <<" ", "r", "1", ",", " ", "r", "2">>
L_add_bang_comment == L_add_bang \o <<" ", ";", " ", "c">>
L_add_comment == L_add_r1_r2 \o <<" ", ";", " ", "c">>
L_comment == <<";", " ", "c">>

EncLines ==
  RegLines \cup OperandLines \cup BareLines
  \cup {L_export_text_foo, L_export_text_start, L_export_long, L_import_baz, L_nop,
        L_add_r1_r2, L_add_r1, L_mv_r1, L_add_bang, L_add_r1_lda, L_lda_r1_add,
        L_add_r1_comma, L_add_r1_comma_sp, L_addr1_r2, L_foo_r1_r2, Str_stw,
        L_add_bang_comment, L_add_comment, L_comment, <<>>}

\* lines around labels, the origin counter and comments
L_lda_foo == Str_lda \o <<" ">> \o T_foo
L_lda_r1_fo == Str_lda \o <<" ", "r", "1", ",", " ", "f", "o">>
L_add_semi_hash == L_add_r1_r2 \o <<" ", ";", " ", "c", " ", "#", " ", "d">>
L_add_hash_semi == L_add_r1_r2 \o <<" ", "#", " ", "c", " ", ";", " ", "d">>
L_export_semi_hash == L_export_text_foo \o <<" ", ";", " ", "c", " ", "#", " ", "d">>
SymLines ==
  {L_export_text_foo, L_import_baz, L_lda_r1_foo, L_lda_foo, L_lda_r1_fo,
   OperandLine(Str_sta, T_foo), OperandLine(Str_sta, <<"0", "x", "2", "A">>),
   OperandLine(Str_stw, T_foo), L_add_r1_r2, L_nop, L_add_bang, L_add_comment,
   L_add_semi_hash, L_add_hash_semi, L_export_semi_hash}

\* numeric literals: a base prefix or none, then up to MaxDigits digits
NumDigits == {"0", "1", "2", "5", "7", "A"}
DigitStrings == UNION {[1..k -> NumDigits] : k \in 1..MaxDigits}
Prefixes == {<<>>, <<"0", "x">>, <<"0", "b">>, <<"0", "o">>}
Literals == {p \o d : p \in Prefixes, d \in DigitStrings}

BinLines == {L_export_text_foo, L_import_baz, L_nop, L_add_bang}
Directives == {L_export_text_foo, L_export_data_bar, L_import_baz}

\* the arguments of a command line: flags, files that exist, a file that does not
FlagArgs == {"-binary", "-verbose", "-h", "-version", "-64xxx"}
ExistingFiles == {"a.64x", "b.64x"}
ArgSet == {"-binary", "-h", "a.64x", "b.64x", "nofile.64x"}

SeqsUpTo(S, n) == UNION {[1..k -> S] : k \in 0..n}

Argvs == SeqsUpTo(ArgSet, MaxArgs)
FixedArgvs == {<<"a.64x">>, <<"-binary", "a.64x">>, <<"-binary">>}
BinArgvs == {<<"-binary", "a.64x">>, <<"-binary">>}
ProcArgvs == FixedArgvs \cup {<<"b.64x">>}

\* the object path of an input path: the source extension replaced
ObjectOutput(arg) ==
  IF arg = "a.64x" THEN "a.o" ELSE IF arg = "b.64x" THEN "b.o" ELSE "nofile.o"

Outputs == {"a.o", "b.o", "nofile.o"}

(* ------------------------------------------------------------------ *)
(* The object file                                                     *)
(* ------------------------------------------------------------------ *)
SizeofAEHeader ==
  kAEMagLen * CharTypeBytes + 2 * CharTypeBytes + SizeTypeBytes + CharTypeBytes
  + 2 * SizeTypeBytes + kAEPad * CharTypeBytes

SizeofAERecordHeader ==
  kAESymbolLen * CharTypeBytes + 4 * SizeTypeBytes + kAEPad * CharTypeBytes

\* CompilerKit::AEHeader hdr as set up before the compile loop
InitHeader ==
  [fMagic |-> <<"A", "E">>, fArch |-> kPefArch64000, fSubArch |-> 0, fCount |-> 0,
   fSize |-> SizeofAEHeader, fStartCode |-> 0, fCodeSize |-> 0, fPad |-> kAEInvalidOpcode]

\* one write of len bytes at file offset at
Chunk(at, len, kind, val) == [at |-> at, len |-> len, kind |-> kind, val |-> val]

RECURSIVE BitOr(_, _)
BitOr(a, b) ==
  IF a = 0 THEN b ELSE IF b = 0 THEN a
  ELSE (IF a % 2 = 1 \/ b % 2 = 1 THEN 1 ELSE 0) + 2 * BitOr(a \div 2, b \div 2)

\* the record loop: flags forced, sequential offsets from 0
StampRecords(recs) ==
  [k \in 1..Len(recs) |->
     [recs[k] EXCEPT !.fFlags = BitOr(@, kKindRelocationAtRuntime), !.fOffset = k - 1]]

\* the record written for an undefined symbol; record_count is one ahead
UndefinedRecord(sym, record_count) ==
  [fName |-> SubSeq(sym, 1, IF Len(sym) < kAESymbolLen THEN Len(sym) ELSE kAESymbolLen),
   fKind |-> kAEInvalidOpcode, fSize |-> Len(sym), fFlags |-> 0,
   fOffset |-> record_count, fPad |-> kAEInvalidOpcode,
   fSpill |-> SubSeq(sym, kAESymbolLen + 1, Len(sym))]

\* no seek forward after the header is rewritten
SeekBeforeBytes_AfterHeader(pos, pos_end) == pos + SizeofAEHeader

\* file_ptr_out.seekp(pos_end) before the program bytes: where they start
SeekBeforeBytes(pos, pos_end) == pos_end

\* hdr.fStartCode = pos_end
StartCode(pos, pos_end) == pos_end

\* hdr.fCount = kRecords.size() + kUndefinedSymbols.size()
HeaderCount(recs, syms) == Len(recs) + Len(syms)

\* the writes of the object-mode branch, in order, from tellp() = pos
ObjectWrites(pos, recs, syms, bytes) ==
  LET hdr == [InitHeader EXCEPT !.fCount = HeaderCount(recs, syms)]
      stamped == StampRecords(recs)
      recAt(k) == pos + SizeofAEHeader + (k - 1) * SizeofAERecordHeader
      recW == [k \in 1..Len(recs) |->
                 Chunk(recAt(k), SizeofAERecordHeader, "record", stamped[k])]
      symW == [k \in 1..Len(syms) |->
                 Chunk(recAt(Len(recs) + k), SizeofAERecordHeader, "record",
                       UndefinedRecord(syms[k], Len(recs) + k))]
      pos_end == recAt(Len(recs) + Len(syms) + 1)
      hdr2 == [hdr EXCEPT !.fStartCode = StartCode(pos, pos_end), !.fCodeSize = Len(bytes)]
      start == SeekBeforeBytes(pos, pos_end)
      byteW == [k \in 1..Len(bytes) |-> Chunk(start + k - 1, 1, "byte", bytes[k])]
  IN <<Chunk(pos, SizeofAEHeader, "header", hdr)>> \o recW \o symW
     \o <<Chunk(pos, SizeofAEHeader, "header", hdr2)>> \o byteW

\* the writes of the flat-binary branch
BinaryWrites(pos, bytes) == [k \in 1..Len(bytes) |-> Chunk(pos + k - 1, 1, "byte", bytes[k])]

\* a catch block that leaves the partial output on disk
RemoveOutput_Kept(f) == f

\* std::filesystem::remove(object_output)
RemoveOutput(f) == [f EXCEPT !.exists = FALSE]

\* std::ofstream file_ptr_out(object_output, std::ofstream::binary)
OpenOutput(f) == [exists |-> TRUE, log |-> <<>>, closed |-> FALSE]

\* what follows a compile that wrote its output, k being the loop index: "return 0"
\* leaves the argument loop
AfterWrite(k) == [pc |-> "returned", i |-> k]

\* what follows the catch of a fatal error: "goto asm_fail_exit"
AfterFatal == "returned"

(* ------------------------------------------------------------------ *)
(* State                                                               *)
(* ------------------------------------------------------------------ *)
VARIABLES
  argv,               \* the arguments after the program name
  i,                  \* the index of the argument loop
  pc,                 \* "args", "loop", "returned" (with retcode), "exited" (std::exit)
  retcode,
  kOutputAsBinary, kVerbose, kAcceptableErrors, kCounter,
  kOrigin, kOriginLabel, kBytes, kCurrentRecord, kRecords, kUndefinedSymbols,
  errno,              \* the C library's errno
  fs,                 \* the object outputs on disk
  input, maxRead,     \* the lines a source file may hold, and how many
  nread,              \* lines read from the file being compiled
  line,               \* the line last read, as read
  last,               \* how its iteration ended: "skip", "ok", "throw", "exit"; "none" before
  run,                \* per argument: "none", "ready", "aborted", "norecord", "done"
  calls,              \* how many times the module's entry point was called
  openedAt,           \* history: the length of kBytes when the last Record was pushed
  src                 \* history, per output: the lines read for it and the output mode

tables == <<kOrigin, kOriginLabel, kBytes, kCurrentRecord, kRecords, kUndefinedSymbols>>
vars == <<argv, i, pc, retcode, kOutputAsBinary, kVerbose, kAcceptableErrors, kCounter,
          kOrigin, kOriginLabel, kBytes, kCurrentRecord, kRecords, kUndefinedSymbols,
          errno, fs, input, maxRead, nread, line, last, run, calls, openedAt, src>>

\* the tables as handed to the operations
G == [kBytes |-> kBytes, kOrigin |-> kOrigin, kOriginLabel |-> kOriginLabel,
      kCurrentRecord |-> kCurrentRecord, kRecords |-> kRecords,
      kUndefinedSymbols |-> kUndefinedSymbols, kCounter |-> kCounter,
      kAcceptableErrors |-> kAcceptableErrors, kOutputAsBinary |-> kOutputAsBinary,
      errno |-> errno, status |-> "ok"]

\* errno as the compile finds it: clear, or left set by an earlier library call
\* (nothing in the program clears it)
Errnos == {0, 25}

\* the static initialisers of the globals
InitGlobals ==
  /\ kOutputAsBinary = FALSE
  /\ kVerbose = FALSE
  /\ kAcceptableErrors = 0
  /\ kCounter = 1
  /\ kOrigin = kPefBaseOrigin
  /\ kOriginLabel = <<>>
  /\ kBytes = <<>>
  /\ kCurrentRecord = InitCurrentRecord
  /\ kRecords = <<>>
  /\ kUndefinedSymbols = <<>>
  /\ errno \in Errnos

InitWith(argvs, lines, n) ==
  /\ argv \in argvs
  /\ i = 1
  /\ pc = "args"
  /\ retcode = 0
  /\ InitGlobals
  /\ fs = [o \in Outputs |-> [exists |-> FALSE, log |-> <<>>, closed |-> FALSE]]
  /\ input = lines
  /\ maxRead = n
  /\ nread = 0
  /\ line = <<>>
  /\ last = "none"
  /\ run = [k \in 1..Len(argv) |-> "none"]
  /\ calls = 1
  /\ openedAt = 0
  /\ src = [o \in Outputs |-> [lines |-> <<>>, binary |-> FALSE]]

Init == InitWith(Argvs, Lines, MaxLines)
InitObj == InitWith(FixedArgvs, Lines, MaxObjLines)
InitLimit == InitWith(FixedArgvs, LimitLines, MaxLimitLines)
InitProc == InitWith(ProcArgvs, ProcLines, MaxProcLines)
InitBin == InitWith(BinArgvs, BinLines, MaxLimitLines)
InitEnc == InitWith(FixedArgvs, EncLines, MaxEncLines)
InitSym == InitWith(FixedArgvs, SymLines, MaxSymLines)

\* the Numeric Literal Reader alone, about to read the literal held in line
InitNum ==
  /\ argv = <<>> /\ i = 1 /\ pc = "number" /\ retcode = 0
  /\ InitGlobals
  /\ fs = [o \in Outputs |-> [exists |-> FALSE, log |-> <<>>, closed |-> FALSE]]
  /\ input = Literals /\ maxRead = 1 /\ nread = 0
  /\ line \in Literals
  /\ last = "none"
  /\ run = <<>>
  /\ calls = 1
  /\ openedAt = 0
  /\ src = [o \in Outputs |-> [lines |-> <<>>, binary |-> FALSE]]

SetGlobals(g) ==
  /\ kBytes' = g.kBytes
  /\ kOrigin' = g.kOrigin
  /\ kOriginLabel' = g.kOriginLabel
  /\ kCurrentRecord' = g.kCurrentRecord
  /\ kRecords' = g.kRecords
  /\ kUndefinedSymbols' = g.kUndefinedSymbols
  /\ kCounter' = g.kCounter
  /\ kAcceptableErrors' = g.kAcceptableErrors

(* ------------------------------------------------------------------ *)
(* MPCC_MODULE(MPUXAssembler64000): the argument loop                  *)
(* ------------------------------------------------------------------ *)

\* argv[i][0] == '-'
ParseFlag ==
  /\ pc = "args" /\ i <= Len(argv) /\ argv[i] \in FlagArgs
  /\ IF argv[i] \in {"-version", "-v", "-h"}
     THEN /\ pc' = "returned" /\ retcode' = 0
          /\ UNCHANGED <<i, kOutputAsBinary, kVerbose>>
     ELSE /\ i' = i + 1
          /\ kOutputAsBinary' = (kOutputAsBinary \/ argv[i] = "-binary")
          /\ kVerbose' = (kVerbose \/ argv[i] = "-verbose")
          /\ UNCHANGED <<pc, retcode>>
  /\ UNCHANGED <<argv, kAcceptableErrors, kCounter, tables, errno, fs, input, maxRead,
                 nread, line, last, run, calls, openedAt, src>>

\* a path argument: missing, or opened for the compile loop
OpenFile ==
  /\ pc = "args" /\ i <= Len(argv) /\ argv[i] \notin FlagArgs
  /\ IF argv[i] \notin ExistingFiles
     THEN /\ pc' = "returned" /\ retcode' = -1
          /\ UNCHANGED <<fs, run, nread, last, src>>
     ELSE /\ pc' = "loop"
          /\ fs' = [fs EXCEPT ![ObjectOutput(argv[i])] = OpenOutput(@)]
          /\ run' = [run EXCEPT ![i] = "ready"]
          /\ nread' = 0
          /\ last' = "none"
          /\ src' = [src EXCEPT ![ObjectOutput(argv[i])] =
                       [lines |-> <<>>, binary |-> kOutputAsBinary]]
          /\ UNCHANGED retcode
  /\ UNCHANGED <<argv, i, kOutputAsBinary, kVerbose, kAcceptableErrors, kCounter, tables,
                 errno, input, maxRead, line, calls, openedAt>>

\* the argument loop ends without a return: control reaches asm_fail_exit
ArgsDone ==
  /\ pc = "args" /\ i > Len(argv)
  /\ pc' = "returned" /\ retcode' = -1
  /\ UNCHANGED <<argv, i, kOutputAsBinary, kVerbose, kAcceptableErrors, kCounter, tables,
                 errno, fs, input, maxRead, nread, line, last, run, calls, openedAt, src>>

\* try { asm_read_attributes(line); asm64.WriteLine(line, argv[i]); }
AfterAttributes(l, attr) == IF attr.status = "ok" THEN WriteLine(l, attr) ELSE attr

\* print_error(ln, argv[i]); continue;
SkipLine(e) == IF e.status = "exit" THEN e ELSE [e EXCEPT !.status = "skip"]

\* the body of the compile loop after CheckLine returned chk
AfterCheck(chk, g) ==
  IF chk.err # <<>> THEN SkipLine(print_error(g))
  ELSE AfterAttributes(chk.line, asm_read_attributes(chk.line, g))

\* one iteration of the compile loop on the line l: the tables after it, with
\* status "ok", "skip", "throw" or "exit"
Iteration(l, g) == AfterCheck(CheckLine(l), g)

\* the catch block and the loop's continuation, for the iteration's result g
Continue(l, g, out) ==
  /\ line' = l
  /\ nread' = nread + 1
  /\ last' = g.status
  /\ SetGlobals(g)
  /\ openedAt' = IF Len(g.kRecords) > Len(kRecords) THEN Len(kBytes) ELSE openedAt
  /\ src' = [src EXCEPT ![out].lines = Append(@, l)]
  /\ IF g.status = "exit"
     THEN /\ pc' = "exited" /\ retcode' = 3
          /\ UNCHANGED <<fs, run>>
     ELSE IF g.status = "throw"
     THEN /\ pc' = AfterFatal /\ retcode' = -1
          /\ fs' = [fs EXCEPT ![out] = RemoveOutput(@)]
          /\ run' = [run EXCEPT ![i] = "aborted"]
     ELSE UNCHANGED <<pc, retcode, fs, run>>

CompileLine ==
  /\ pc = "loop" /\ nread < maxRead
  /\ \E l \in input : Continue(l, Iteration(l, G), ObjectOutput(argv[i]))
  /\ UNCHANGED <<argv, i, kOutputAsBinary, kVerbose, errno, input, maxRead, calls>>

\* std::getline fails: the output stage, then "return 0"
EndOfInput ==
  /\ pc = "loop"
  /\ IF ~kOutputAsBinary /\ kRecords = <<>>
     THEN /\ fs' = [fs EXCEPT ![ObjectOutput(argv[i])] =
                      RemoveOutput([@ EXCEPT !.log = <<Chunk(0, SizeofAEHeader, "header",
                         [InitHeader EXCEPT !.fCount =
                            HeaderCount(kRecords, kUndefinedSymbols)])>>])]
          /\ pc' = "returned" /\ retcode' = -1
          /\ run' = [run EXCEPT ![i] = "norecord"]
          /\ UNCHANGED <<i, kRecords, kCounter>>
     ELSE IF ~kOutputAsBinary
     THEN /\ fs' = [fs EXCEPT ![ObjectOutput(argv[i])] =
                      [@ EXCEPT !.log = ObjectWrites(0, FinalizeLast(kRecords, kBytes),
                                                     kUndefinedSymbols, kBytes),
                                !.closed = TRUE]]
          /\ kRecords' = StampRecords(FinalizeLast(kRecords, kBytes))
          /\ kCounter' = kCounter + Len(kUndefinedSymbols)
          /\ pc' = AfterWrite(i).pc /\ i' = AfterWrite(i).i /\ retcode' = 0
          /\ run' = [run EXCEPT ![i] = "done"]
     ELSE /\ fs' = [fs EXCEPT ![ObjectOutput(argv[i])] =
                      [@ EXCEPT !.log = BinaryWrites(0, kBytes), !.closed = TRUE]]
          /\ pc' = AfterWrite(i).pc /\ i' = AfterWrite(i).i /\ retcode' = 0
          /\ run' = [run EXCEPT ![i] = "done"]
          /\ UNCHANGED <<kRecords, kCounter>>
  /\ UNCHANGED <<argv, kOutputAsBinary, kVerbose, kAcceptableErrors, kOrigin,
                 kOriginLabel, kBytes, kCurrentRecord, kUndefinedSymbols, errno, input,
                 maxRead, nread, line, last, calls, openedAt, src>>

\* the host calls the module's entry point again in the same process: the
\* statics keep their values, the locals are fresh
Reinvoke ==
  /\ pc = "returned" /\ calls < MaxCalls
  /\ argv' \in ProcArgvs
  /\ i' = 1 /\ pc' = "args" /\ retcode' = 0
  /\ run' = [k \in 1..Len(argv') |-> "none"]
  /\ calls' = calls + 1
  /\ nread' = 0 /\ line' = <<>> /\ last' = "none"
  /\ UNCHANGED <<kOutputAsBinary, kVerbose, kAcceptableErrors, kCounter, tables, errno,
                 fs, input, maxRead, openedAt, src>>

\* how a call of WriteNumber ended: w is what it returned
NumberStatus(w) ==
  IF w.g.status # "ok" THEN w.g.status ELSE IF w.ok THEN "ok" ELSE "false"

\* WriteNumber(0, line)
ReadNumber ==
  /\ pc = "number"
  /\ SetGlobals(WriteNumber(0, line, G).g)
  /\ last' = NumberStatus(WriteNumber(0, line, G))
  /\ pc' = "returned"
  /\ nread' = nread + 1
  /\ UNCHANGED <<argv, i, retcode, kOutputAsBinary, kVerbose, errno, fs, input, maxRead,
                 line, run, calls, openedAt, src>>

NextNum == ReadNumber

Next == ParseFlag \/ OpenFile \/ ArgsDone \/ CompileLine \/ EndOfInput
NextProc == Next \/ Reinvoke

Spec == Init /\ [][Next]_vars
SpecObj == InitObj /\ [][Next]_vars
SpecLimit == InitLimit /\ [][Next]_vars
SpecProc == InitProc /\ [][NextProc]_vars
SpecBin == InitBin /\ [][Next]_vars
SpecEnc == InitEnc /\ [][Next]_vars
SpecNum == InitNum /\ [][NextNum]_vars
SpecSym == InitSym /\ [][Next]_vars

(* ------------------------------------------------------------------ *)
(* Properties                                                          *)
(* ------------------------------------------------------------------ *)

\* the object output of argument k
Out(k) == fs[ObjectOutput(argv[k])]

Ended == pc \in {"returned", "exited"}

\* C1, as stated: a fatal error raised by asm_read_attributes or WriteLine ends
\* the compile Aborted (nothing serialized, the object output gone, no later
\* line processed), and a compile without such an error ends Done with the
\* object output written.
C1_FatalAbortsElseDone ==
  \A k \in 1..Len(argv) : run[k] # "none" =>
    /\ last = "throw" =>
         (run[k] = "aborted" /\ pc = "returned" /\ ~Out(k).exists /\ Out(k).log = <<>>)
    /\ (Ended /\ last # "throw") =>
         (run[k] = "done" /\ Out(k).exists /\ Out(k).closed)

\* C1, amended: a fatal error raised on a line ends the compile Aborted: that
\* line is the last one processed, nothing is serialized and the object output
\* is removed.  Without a fatal error the run ends Done with the output written,
\* except that an object-mode file without any Record ends as a failure with
\* its output removed, and that the error-limit stop ends the process with the
\* compile neither Aborted nor Done.
C1_AbortedOrDone ==
  \A k \in 1..Len(argv) : run[k] # "none" =>
    /\ (last = "throw") <=> (run[k] = "aborted")
    /\ run[k] = "aborted" =>
         (pc = "returned" /\ retcode = -1 /\ ~Out(k).exists /\ Out(k).log = <<>>)
    /\ run[k] = "done" =>
         (pc = "returned" /\ retcode = 0 /\ Out(k).exists /\ Out(k).closed
          /\ (kOutputAsBinary \/ kRecords # <<>>))
    /\ run[k] = "norecord" =>
         (pc = "returned" /\ retcode = -1 /\ ~Out(k).exists
          /\ ~kOutputAsBinary /\ kRecords = <<>>)
    /\ pc = "returned" => run[k] \in {"aborted", "done", "norecord"}
    /\ pc = "exited" => (run[k] = "ready" /\ last = "exit" /\ Out(k).log = <<>>)

\* a fatal error on a later line of a file, after a directive was applied and
\* an invalid line skipped
C1_Witness ==
  \E k \in 1..Len(argv) :
    /\ run[k] = "aborted" /\ nread >= 3 /\ last = "throw"
    /\ kRecords # <<>> /\ kBytes # <<>> /\ kAcceptableErrors >= 2

\* C2, as stated: in an invocation with several input files every input file
\* is compiled, whether an earlier file succeeded or failed.
C2_EveryFileCompiled ==
  (pc = "returned" /\ \A k \in 1..Len(argv) : argv[k] \in ExistingFiles)
    => \A k \in 1..Len(argv) : run[k] # "none"

\* C3, as stated: when the compile of an input file begins, the Record,
\* OriginLabel and UndefinedSymbol tables and the ByteBuffer are empty and the
\* origin counter is the base origin, whatever was compiled before in the process.
C3_TablesEmptyAtStart ==
  (pc = "loop" /\ nread = 0) =>
    (kRecords = <<>> /\ kOriginLabel = <<>> /\ kUndefinedSymbols = <<>>
     /\ kBytes = <<>> /\ kOrigin = kPefBaseOrigin)

\* C4, as stated: the process stops at the error report that makes the error
\* counter exceed the limit, and never stops this way with the counter at or
\* below the limit.
C4_HardStopAtLimit ==
  /\ kAcceptableErrors > kErrorLimit => pc = "exited"
  /\ pc = "exited" => kAcceptableErrors > kErrorLimit

\* a step of the compile loop that read one more line
ReadsLine == pc = "loop" /\ nread' = nread + 1

IsPrefix(a, b) == Len(a) <= Len(b) /\ SubSeq(b, 1, Len(a)) = a

\* C5, as stated: a line for which CheckLine returns an error is skipped: the
\* tables, the ByteBuffer and the origin counter are unchanged, the error
\* counter grows by one and the compile loop goes on with the same file.
C5_SkipCountsAndContinues ==
  [][(ReadsLine /\ CheckLine(line').err # <<>>) =>
       (tables' = tables /\ kAcceptableErrors' = kAcceptableErrors + 1
        /\ pc' = "loop" /\ last' = "skip")]_vars

\* C5, amended: a line for which CheckLine returns an error never changes the
\* tables, the ByteBuffer or the origin counter.  While the error counter does
\* not exceed the limit the counter grows by one and the compile loop goes on
\* with the same file; once it exceeds the limit the report ends the process
\* instead, the counter unchanged.
C5_SkipLeavesTables ==
  [][(ReadsLine /\ CheckLine(line').err # <<>>) =>
       /\ tables' = tables
       /\ IF kAcceptableErrors > kErrorLimit
          THEN pc' = "exited" /\ kAcceptableErrors' = kAcceptableErrors /\ last' = "exit"
          ELSE pc' = "loop" /\ kAcceptableErrors' = kAcceptableErrors + 1
               /\ last' = "skip" /\ run' = run /\ fs' = fs]_vars

\* an invalid line was skipped after a Record was made, and the loop goes on
C5_Witness ==
  /\ pc = "loop" /\ last = "skip" /\ CheckLine(line).err # <<>>
  /\ kRecords # <<>> /\ kAcceptableErrors >= 2

\* C6, as stated: the size finalized on the earlier of two consecutive
\* directives' Records (or on the last Record at end of file) is the number of
\* bytes appended to the ByteBuffer between the two, wherever the pair is.
C6_SizeIsBytesBetween ==
  [][/\ (ReadsLine /\ kRecords # <<>> /\ Len(kRecords') = Len(kRecords) + 1) =>
          kRecords'[Len(kRecords)].fSize = Len(kBytes) - openedAt
     /\ (pc = "loop" /\ pc' = "returned" /\ run'[i] = "done" /\ ~kOutputAsBinary) =>
          kRecords'[Len(kRecords')].fSize = Len(kBytes) - openedAt]_vars

\* an output closed by the object-mode branch for argument k
WrittenObject(k) == run[k] = "done" /\ ~kOutputAsBinary /\ Out(k).closed

\* C7: in a written object file the header's code size and the last Record's
\* size are the final length of the ByteBuffer, and during a compile the
\* ByteBuffer only grows at its end.
C7_CodeSizeIsBufferLength ==
  /\ [](\A k \in 1..Len(argv) : WrittenObject(k) =>
          /\ Out(k).log[Len(kRecords) + Len(kUndefinedSymbols) + 2].kind = "header"
          /\ Out(k).log[Len(kRecords) + Len(kUndefinedSymbols) + 2].val.fCodeSize = Len(kBytes)
          /\ Out(k).log[Len(kRecords) + 1].kind = "record"
          /\ Out(k).log[Len(kRecords) + 1].val.fSize = Len(kBytes)
          /\ kRecords[Len(kRecords)].fSize = Len(kBytes))
  /\ [][pc = "loop" => IsPrefix(kBytes, kBytes')]_vars

\* an object file with two Records and encoded bytes after each
C7_Witness ==
  \E k \in 1..Len(argv) :
    /\ WrittenObject(k) /\ Len(kRecords) >= 2
    /\ kRecords[1].fSize > 0 /\ Len(kBytes) > kRecords[1].fSize

\* the number of record entries in a write log
RecordEntries(log) == Cardinality({j \in DOMAIN log : log[j].kind = "record"})

\* the write log: header, r records back to back, header again at the same
\* offset, then the bytes; the rewritten header describes what was written
SerializedInOrder(log, r) ==
  /\ Len(log) = r + 2 + Len(kBytes)
  /\ log[1].kind = "header"
  /\ \A j \in 2..(r + 1) : log[j].kind = "record" /\ log[j].at = log[j - 1].at + log[j - 1].len
  /\ \A j \in 1..Len(kRecords) : log[j + 1].val = kRecords[j]
  /\ \A j \in (Len(kRecords) + 2)..(r + 1) : log[j].val.fKind = kAEInvalidOpcode
  /\ log[r + 2].kind = "header" /\ log[r + 2].at = log[1].at
  /\ \A j \in (r + 3)..Len(log) :
       log[j].kind = "byte" /\ log[j].val = kBytes[j - r - 2]
       /\ log[j].at = log[r + 2].val.fStartCode + (j - r - 3)
  /\ log[r + 2].val.fCount = r
  /\ log[r + 2].val.fStartCode = log[r + 1].at + log[r + 1].len

\* C8: object mode writes a placeholder header, every Record, every
\* UndefinedSymbol record, the header again at its original offset, then the
\* bytes; the final header's count is the number of record entries, its
\* start-of-code is the offset after the last record entry, and the first byte
\* of the ByteBuffer is stored at start-of-code.
C8_SerializationOrder ==
  \A k \in 1..Len(argv) :
    WrittenObject(k) => SerializedInOrder(Out(k).log, RecordEntries(Out(k).log))

\* an object file with two Records and bytes
C8_Witness ==
  \E k \in 1..Len(argv) :
    /\ WrittenObject(k) /\ RecordEntries(Out(k).log) >= 2 /\ Len(kBytes) >= 3
    /\ Out(k).log[1].val.fStartCode = 0

\* C9, as stated: in object mode an import directive records an
\* UndefinedSymbol and never yields a Record of kind Code, Data or Zero; the
\* object file holds one record of kind Undefined for it, after the Records.
C9_ImportIsUndefined ==
  /\ (~kOutputAsBinary /\ pc = "loop" /\ last = "ok" /\ line = L_import_baz) =>
       /\ kUndefinedSymbols # <<>>
       /\ \A j \in DOMAIN kRecords :
            kRecords[j].fName = <<"3">> \o kUndefinedSymbol \o <<"b", "a", "z">>
              => kRecords[j].fKind \notin {kPefCode, kPefData, kPefZero}
  /\ \A k \in 1..Len(argv) : WrittenObject(k) =>
       \A j \in DOMAIN Out(k).log :
         (Out(k).log[j].kind = "record"
          /\ Out(k).log[j].val.fName = <<"3">> \o kUndefinedSymbol \o <<"b", "a", "z">>)
           => (Out(k).log[j].val.fKind = kAEInvalidOpcode /\ j > Len(kRecords) + 1)

\* a step that applied a directive line in flat-binary mode
BinaryDirective ==
  ReadsLine /\ kOutputAsBinary /\ line' \in Directives /\ CheckLine(line').err = <<>>

TablesEmpty == kRecords = <<>> /\ kOriginLabel = <<>> /\ kUndefinedSymbols = <<>>

Codes(str) == [k \in 1..Len(str) |-> Ord(str[k])]

\* the relocation marker of the symbol s: <decimal length>:mld:<s>, then a null
MarkerOf(s) == Codes(to_string(Len(s)) \o kRelocSymbol \o s) \o <<0>>

EndsWith(b, m) == Len(b) >= Len(m) /\ SubSeq(b, Len(b) - Len(m) + 1, Len(b)) = m

\* C11, as stated: encoding an lda whose operand is a symbol that matches no
\* OriginLabel, with or without a register before it, leaves the ByteBuffer
\* ending in the marker of the operand alone.
C11_MarkerIsOperand ==
  (pc = "loop" /\ last = "ok" /\ FindLabel(kOriginLabel, T_foo) = 0
   /\ line \in {Str_lda \o <<" ">> \o T_foo, OperandLine(Str_lda, T_foo)})
    => EndsWith(kBytes, MarkerOf(T_foo))

\* the value of a literal read in the base its prefix names: 16, 2, 8, or 10
ClaimedBase(lit) ==
  IF Len(lit) > 2 /\ SubSeq(lit, 1, 2) = <<"0", "x">> THEN 16
  ELSE IF Len(lit) > 2 /\ SubSeq(lit, 1, 2) = <<"0", "b">> THEN 2
  ELSE IF Len(lit) > 2 /\ SubSeq(lit, 1, 2) = <<"0", "o">> THEN 8
  ELSE 10

LiteralDigits(lit) == IF ClaimedBase(lit) = 10 THEN lit ELSE SubSeq(lit, 3, Len(lit))

WellFormed(lit) ==
  \A k \in 1..Len(LiteralDigits(lit)) : DigitVal(LiteralDigits(lit)[k]) < ClaimedBase(lit)

ClaimedValue(lit) == StrtoqDigits(LiteralDigits(lit), 1, ClaimedBase(lit), 0)

\* C12, as stated: WriteNumber reads a 0x literal in base 16, a 0b literal in
\* base 2, a 0o literal in base 8 and a bare literal in base 10, and appends
\* the bytes of the value, the same bytes for the same value in every base.
C12_SameBytesInEveryBase ==
  (pc = "returned" /\ WellFormed(line)) =>
    (last = "ok" /\ kBytes = NumberCast(ClaimedValue(line), NumberCastBytes))

\* the bytes of the opcode-table entry named name
OpcodeBytes(name) ==
  LET o == kOpcodes64x0[CHOOSE k \in 1..Len(kOpcodes64x0) : kOpcodes64x0[k].fName = name]
  IN <<o.fOpcode, o.fFunct3, o.fFunct7>>

C14_StartRecord ==
  \A o \in Outputs :
    (fs[o].exists /\ fs[o].closed /\ ~src[o].binary
     /\ src[o].lines = <<L_export_text_start, L_add_r1_r2>>) =>
      /\ Len(fs[o].log) = 3 + 5
      /\ fs[o].log[3].kind = "header" /\ fs[o].log[3].val.fCount = 1
      /\ fs[o].log[2].kind = "record"
      /\ fs[o].log[2].val.fKind = kPefCode
      /\ fs[o].log[2].val.fSize = 5
      /\ fs[o].log[2].val.fName = Str_start
      /\ <<fs[o].log[4].val, fs[o].log[5].val, fs[o].log[6].val>> = OpcodeBytes(Str_add)

\* an output written from lines that CheckLine all accepts
ValidSource(o) ==
  /\ fs[o].exists /\ fs[o].closed
  /\ src[o].lines # <<>>
  /\ \A k \in 1..Len(src[o].lines) : CheckLine(src[o].lines[k]).err = <<>>

\* C15, as stated: two compiles of the same valid lines in the same output
\* mode write identical files, whatever was compiled before in the process.
C15_SameSourceSameObject ==
  \A o1, o2 \in Outputs :
    (ValidSource(o1) /\ ValidSource(o2) /\ src[o1] = src[o2]) => fs[o1].log = fs[o2].log

AllowList ==
  Lower \cup Upper \cup Digits
  \cup {" ", "\t", ",", "(", ")", "\"", "'", "[", "]", "+", "_", ":", "@", "."}

AllowListed(l) == \A k \in 1..Len(l) : l[k] \in AllowList

\* empty, a directive, or with a comment
DirectiveOrComment(l) ==
  \/ l = <<>>
  \/ Find(l, Str_import) # NPOS \/ Find(l, Str_export) # NPOS
  \/ Find(l, <<"#">>) # NPOS \/ Find(l, <<";">>) # NPOS

\* a comma with nothing but whitespace after it
DanglingComma(l) ==
  /\ Find(l, <<",">>) # NPOS
  /\ \A k \in (Find(l, <<",">>) + 2)..Len(l) : l[k] \in {" ", "\t"}

\* the table entries whose mnemonic occurs in the line
Mentioned(l) == {k \in 1..Len(kOpcodes64x0) : Find(l, kOpcodes64x0[k].fName) # NPOS}

\* entry k takes no operands, or its mnemonic is followed by whitespace in l
Spaced(l, k) ==
  \/ kOpcodes64x0[k].fFunct7 = kAsmNoArgs
  \/ At(l, Find(l, kOpcodes64x0[k].fName) + Len(kOpcodes64x0[k].fName)) \in {" ", "\t"}

MustReject(l) ==
  ~DirectiveOrComment(l) /\ (~AllowListed(l) \/ DanglingComma(l) \/ Mentioned(l) = {})

\* C16, as stated: CheckLine returns no error for a line of allow-listed
\* characters that holds a known mnemonic followed by whitespace before its
\* operands, and an error for a line, not a directive or comment, that holds a
\* character outside the allow-list, only whitespace after its comma, or no
\* mnemonic.
C16_SpacedMnemonicAccepted ==
  (nread >= 1 /\ pc # "number") =>
    /\ (AllowListed(line) /\ ~DirectiveOrComment(line) /\ ~DanglingComma(line)
        /\ \E k \in Mentioned(line) : Spaced(line, k)) => last # "skip"
    /\ MustReject(line) => last = "skip"

\* C16, amended: CheckLine returns no error for a line of allow-listed
\* characters, with an operand after its comma, when the first entry of the
\* opcode table, in table order, whose mnemonic occurs anywhere in the line
\* takes no operands or is followed by whitespace; and it returns an error for
\* a line, not a directive or comment, that holds a character outside the
\* allow-list, only whitespace after its comma, or no mnemonic.
C16_FirstMentionedSpaced ==
  (nread >= 1 /\ pc # "number") =>
    /\ (AllowListed(line) /\ ~DirectiveOrComment(line) /\ ~DanglingComma(line)
        /\ Mentioned(line) # {}
        /\ Spaced(line, CHOOSE k \in Mentioned(line) : \A j \in Mentioned(line) : k <= j))
         => last # "skip"
    /\ MustReject(line) => last = "skip"

\* a line that names a second mnemonic after the one it starts with was accepted
C16_Witness == nread >= 1 /\ line = L_lda_r1_add /\ last = "ok"

\* C17: for every import and export directive, whatever the length of its
\* name, the stored name stays inside the name field of the record: at most
\* kAESymbolLen characters are stored and nothing is written past the field
\* into the fields that follow it.
C17_NameStaysInField ==
  \A k \in 1..Len(kRecords) :
    Len(kRecords[k].fName) <= kAESymbolLen /\ kRecords[k].fSpill = <<>>

\* a line that holds neither a directive nor a comment and is not empty
InstructionLine(l) ==
  /\ l # <<>>
  /\ Find(l, Str_import) = NPOS /\ Find(l, Str_export) = NPOS
  /\ At(l, 0) \notin {"#", ";"}

\* C18: no line is dropped silently: every line that CheckLine accepts and
\* that is not empty, a pure comment or a directive either appends at least
\* three opcode bytes to the ByteBuffer or ends in a fatal error.
C18_NoSilentDrop ==
  [][(ReadsLine /\ InstructionLine(line') /\ last' # "skip")
       => \/ Len(kBytes') >= Len(kBytes) + 3
          \/ last' \in {"throw", "exit"}]_vars

\* the number of register tokens of a line: an r followed by a digit
RegisterTokens(l) ==
  Cardinality({k \in 1..(Len(l) - 1) : l[k] = "r" /\ l[k + 1] \in Digits})

\* the table entry WriteLine encodes the line with
OpcodeOf(l) == kOpcodes64x0[FirstOpcode(Mentioned(l))]

Encoded == nread >= 1 /\ pc # "number" /\ last # "skip" /\ Mentioned(line) # {}
           /\ InstructionLine(line) /\ AllowListed(line)

ContainsSeq(b, m) == \E k \in 0..(Len(b) - Len(m)) : SubSeq(b, k + 1, k + Len(m)) = m

NumericOperands == Operands \ {T_foo}

\* C20: for stw, ldw, lda and sta the relocation marker is appended only when
\* the operand is neither a numeric literal nor matched in the OriginLabel
\* table, and a numeric literal, in any base, contributes its fixed-width
\* bytes exactly once and no marker.
C20_MarkerOrNumber ==
  [][\A name \in {Str_stw, Str_ldw, Str_lda, Str_sta} : \A op \in Operands :
       (ReadsLine /\ line' = OperandLine(name, op) /\ last' = "ok") =>
         /\ IsPrefix(kBytes, kBytes')
         /\ ContainsSeq(SubSeq(kBytes', Len(kBytes) + 1, Len(kBytes')), Codes(kRelocSymbol))
              => (op = T_foo /\ FindLabel(kOriginLabel, op) = 0)
         /\ op \in NumericOperands =>
              kBytes' = kBytes \o OpcodeBytes(name) \o <<1>>
                          \o NumberCast(ClaimedValue(op), NumberCastBytes)]_vars

\* the entries of the OriginLabel table named s, and the first of them (or 0)
Named(s) == {k \in 1..Len(kOriginLabel) : kOriginLabel[k][1] = s}
FirstNamed(s) == IF Named(s) = {} THEN 0 ELSE CHOOSE k \in Named(s) : \A j \in Named(s) : k <= j

\* the bytes an lda or sta with register r1 and an operand resolved to the
\* ordinal of origin label k leaves after the bytes b
ResolvedTo(b, name, k) ==
  b \o OpcodeBytes(name) \o <<1>> \o NumberCast(kOriginLabel[k][2], NumberCastBytes)

HasIntroducer(l) == \E k \in 1..Len(l) : l[k] \in {"#", ";"}

\* the line up to its first comment introducer
BeforeComment(l) ==
  SubSeq(l, 1, (CHOOSE k \in 1..Len(l) :
                  l[k] \in {"#", ";"} /\ \A j \in 1..(k - 1) : l[j] \notin {"#", ";"}) - 1)

\* C22: after CheckLine accepts a line that holds a comment introducer, the
\* line handed to the directive processor and the encoder holds no # and no ;
\* : everything from the first introducer on has been removed, also when the
\* line holds both.
C22_CommentStripped ==
  (nread >= 1 /\ pc # "number" /\ last # "skip" /\ HasIntroducer(line)) =>
    /\ ~HasIntroducer(CheckLine(line).line)
    /\ CheckLine(line).line = BeforeComment(line)

\* what the origin counter gains from a line that was read with outcome "ok"
OriginStep(l) ==
  IF Find(l, Str_export_sp) # NPOS THEN 1
  ELSE IF Find(l, Str_import_sp) # NPOS THEN 0
  ELSE IF Mentioned(l) # {} /\ OpcodeOf(l).fName \in {Str_lda, Str_sta} THEN 1
  ELSE 0

\* C23: the origin counter starts at the base origin and changes in two ways
\* only: an export directive records its value in a new OriginLabel and adds
\* one, and an encoded lda or sta adds one; validating a line, an import
\* directive and any other instruction leave it unchanged, and the ordinals
\* of the OriginLabel table are strictly increasing.
C23_OriginCounter ==
  /\ kOrigin = kPefBaseOrigin
  /\ [](\A j, k \in 1..Len(kOriginLabel) : j < k => kOriginLabel[j][2] < kOriginLabel[k][2])
  /\ [][/\ ~ReadsLine => kOrigin' = kOrigin
        /\ (ReadsLine /\ last' = "skip") => kOrigin' = kOrigin
        /\ (ReadsLine /\ last' = "ok") =>
             /\ kOrigin' = kOrigin + OriginStep(line')
             /\ Find(line', Str_export_sp) # NPOS =>
                  /\ Len(kOriginLabel') = Len(kOriginLabel) + 1
                  /\ kOriginLabel'[Len(kOriginLabel')][2] = kOrigin]_vars

====
